---- MODULE Spec2Model ----
(***************************************************************************)
(* Slang: a token-level macro expander.  The module models the tokenizer   *)
(* (src/src/tokenizer.rs), the prefix-free hash trie                       *)
(* (src/src/trie/hash.rs), and the macro store with its builder and       *)
(* expander (src/src/macro_def.rs, src/src/builder.rs), and the line       *)
(* iterator with the loop of expand_file (src/src/bufread_iter.rs,         *)
(* src/src/expander.rs).                                                   *)
(*                                                                         *)
(* A string is a sequence of characters; a character is a one-character    *)
(* TLA+ string.  Slices of a Rust &str are taken at byte offsets, so the   *)
(* model keeps the UTF-8 width of every character.                         *)
(***************************************************************************)
EXTENDS Integers, Sequences, FiniteSets, TLC

VARIABLES
    tk_input,      \* tokenize: the `input` argument
    tk_start,      \* tokenize: the local `start`, the unread rest of the input
    tk_output,     \* tokenize: the local `output`, the tokens pushed so far
    tk_pc,         \* tokenize: "loop" while in the loop, "done" once returned
    tr_trie,       \* a HashTrie<K, V>
    tr_call,       \* the last insert call on tr_trie: its arguments, its result, and
                   \* what get(path) returned just before it
    tr_stored,     \* history: path -> value of the last insert of it that returned true
    tr_ops,        \* history: the number of insert calls made so far
    rc_task,       \* run_command: the Task and the files it names
    rc_pc,         \* run_command: "build", "input", "output", "tokenize", "expand"
                   \* (at the test of the loop of expand_tokens), "match" (in its
                   \* body), then "done" (returned Ok) or "failed" (returned Err)
    rc_file_idx,   \* build_macros: the number of macro files read so far
    rc_macros,     \* build_macros: the local `macros`, then `macro_defs`
    rc_tokens,     \* expand_tokens: the `input` argument
    rc_remaining,  \* expand_tokens: the local `remaining`
    rc_out,        \* the characters written to the output stream so far
    rc_effects,    \* history: what run_command has done to the files of the task,
                   \* "input_read" and "output_created"
    km_map,        \* a HashMap<Pair<u32, K>, HashTrieNode<V>>, as its buckets
    km_stored,     \* history: <<node id, key>> -> the node last inserted under it
    li_reader,     \* BufReadIter: what is left of `bufreader`, as the outcomes of
                   \* the read_line calls that reach the end of its stream
    li_line,       \* expand_file: the `line` bound by the while-let loop, an Option
    li_pc          \* expand_file: "next" at the call of line_iter.next(), "body"
                   \* in the body of the loop, "done" once returned

tkVars == <<tk_input, tk_start, tk_output, tk_pc>>
trVars == <<tr_trie, tr_call, tr_stored, tr_ops>>
rcVars == <<rc_task, rc_pc, rc_file_idx, rc_macros, rc_tokens, rc_remaining, rc_out,
            rc_effects>>

kmVars == <<km_map, km_stored>>

liVars == <<li_reader, li_line, li_pc>>

vars == <<tk_input, tk_start, tk_output, tk_pc, tr_trie, tr_call, tr_stored, tr_ops,
          rc_task, rc_pc, rc_file_idx, rc_macros, rc_tokens, rc_remaining, rc_out,
          rc_effects, km_map, km_stored, li_reader, li_line, li_pc>>

----------------------------------------------------------------------------
(* Bounds of the model.                                                    *)

\* Longest input string given to the tokenizer.
MaxLen == 4

\* Longest path given to HashTrie::insert and HashTrie::get.
MaxPathLen == 2

\* Most insert calls made on one trie.
MaxInserts == 3

\* Most macro files named by one Task.
MaxFiles == 2

\* The number of buckets of the hash map of the edge-key model.
NumBuckets == 2

\* The largest node id used in an edge key of the edge-key model.
MaxEdgeId == 1

\* Most read_line calls that it takes to reach the end of a reader's stream.
MaxLines == 4

\* The width in bits the model gives the node-id counter next_id, a u32 in
\* the code: ids run from 0 to 2^IdBits - 1.
IdBits == 3

----------------------------------------------------------------------------
(* Tokenizer, src/src/tokenizer.rs                                         *)

\* Tokenizer::default(): the characters that are always a token by themselves.
singletons == {"[", "]", "{", "}", "(", ")", ",", ":", "#"}

\* Tokenizer::default(): the characters that separate tokens.
separators == {" ", "\n", "\r", "\t"}

\* The characters the inputs are drawn from: two ordinary characters (one of
\* them two bytes wide in UTF-8), two singletons and two separators.
Alphabet == {"a", "é", "(", ",", " ", "\n"}

\* char::len_utf8 for the characters of the model.
Utf8Len(c) == IF c = "é" THEN 2 ELSE 1

\* The byte offset char_indices() reports for the i-th character of s
\* (characters are numbered from 1, offsets from 0).
RECURSIVE ByteOffset(_, _)
ByteOffset(s, i) == IF i <= 1 THEN 0 ELSE ByteOffset(s, i - 1) + Utf8Len(s[i - 1])

\* The number of characters of s that start before byte offset b.
CharsBefore(s, b) == Cardinality({i \in 1..Len(s) : ByteOffset(s, i) < b})

\* &input[ .. b]
SliceTo(s, b) == SubSeq(s, 1, CharsBefore(s, b))

\* &input[b .. ]
SliceFrom(s, b) == SubSeq(s, CharsBefore(s, b) + 1, Len(s))

\* struct ParseResult
ParseResult(c, r) == [contents |-> c, remaining |-> r]

\* ValueScanStop with the singleton test left out of the scan: a value runs
\* on through singletons up to the next separator.
ValueScanStop_SeparatorsOnly(input) ==
    LET hits == {i \in 2..Len(input) : input[i] \in separators}
    IN  IF hits = {} THEN 0 ELSE CHOOSE i \in hits : \A j \in hits : i <= j

\* The index of the first character after the first that is a separator or
\* a singleton, 0 when the while-let loop of read_value runs off the end.
ValueScanStop(input) ==
    LET hits == {i \in 2..Len(input) : input[i] \in separators \/ input[i] \in singletons}
    IN  IF hits = {} THEN 0 ELSE CHOOSE i \in hits : \A j \in hits : i <= j

\* Tokenizer::read_value
read_value(input) ==
    LET first_sep    == Len(input) > 0 /\ input[1] \in separators
        first_single == Len(input) > 0 /\ input[1] \in singletons
        short_cut    == first_sep \/ first_single
        stop         == ValueScanStop(input)
        value_end    == IF short_cut
                        THEN (IF first_single THEN 1 ELSE 0)
                        ELSE (IF stop = 0 THEN 0 ELSE ByteOffset(input, stop))
    IN  ParseResult(SliceTo(input, value_end), SliceFrom(input, value_end))

\* read_suffix with the remaining input of the all-separators case being the
\* whole input instead of the empty slice: the suffix is read and not consumed.
read_suffix_KeepsInput(input) ==
    LET hits == {i \in 1..Len(input) : input[i] \notin separators}
    IN  IF hits = {}
        THEN ParseResult(input, input)
        ELSE LET index == ByteOffset(input, CHOOSE i \in hits : \A j \in hits : i <= j)
             IN  ParseResult(SliceTo(input, index), SliceFrom(input, index))

\* read_suffix reading one separator at most: the suffix stops after its
\* first character even when more separators follow.
read_suffix_OneSeparator(input) ==
    IF Len(input) > 0 /\ input[1] \in separators
    THEN ParseResult(SubSeq(input, 1, 1), SubSeq(input, 2, Len(input)))
    ELSE ParseResult(<<>>, input)

\* Tokenizer::read_suffix
read_suffix(input) ==
    LET hits == {i \in 1..Len(input) : input[i] \notin separators}
    IN  IF hits = {}
        THEN ParseResult(input, <<>>)
        ELSE LET index == ByteOffset(input, CHOOSE i \in hits : \A j \in hits : i <= j)
             IN  ParseResult(SliceTo(input, index), SliceFrom(input, index))

\* struct Token
Token(v, s) == [value |-> v, suffix |-> s]

\* One pass through the body of the loop of Tokenizer::tokenize that pushes
\* a token and goes round again.
TokenizePush ==
    /\ tk_pc = "loop"
    /\ \E rv \in {read_value(tk_start)} :
       \E rs \in {read_suffix(rv.remaining)} :
           /\ ~(rv.contents = <<>> /\ rs.contents = <<>>)
           /\ tk_output' = Append(tk_output, Token(rv.contents, rs.contents))
           /\ tk_start' = rs.remaining
    /\ UNCHANGED <<tk_input, tk_pc>>
    /\ UNCHANGED <<trVars, rcVars, kmVars, liVars>>

\* The pass through the loop body that reads an empty value and an empty
\* suffix: break, and return the output.
TokenizeBreak ==
    /\ tk_pc = "loop"
    /\ \E rv \in {read_value(tk_start)} :
       \E rs \in {read_suffix(rv.remaining)} :
           rv.contents = <<>> /\ rs.contents = <<>>
    /\ tk_pc' = "done"
    /\ UNCHANGED <<tk_input, tk_start, tk_output>>
    /\ UNCHANGED <<trVars, rcVars, kmVars, liVars>>

\* The whole of Tokenizer::tokenize as a function of its input.
RECURSIVE TokenizeFrom(_, _)
TokenizeFrom(start, output) ==
    LET rv == read_value(start)
        rs == read_suffix(rv.remaining)
    IN  IF rv.contents = <<>> /\ rs.contents = <<>>
        THEN output
        ELSE TokenizeFrom(rs.remaining, Append(output, Token(rv.contents, rs.contents)))

tokenize(input) == TokenizeFrom(input, <<>>)

----------------------------------------------------------------------------
(* Prefix-free trie, src/src/trie/hash.rs                                  *)
(*                                                                         *)
(* An Option<T> is a sequence: None is <<>> and Some(x) is <<x>>.  An edge  *)
(* (Pair or HalfBorrowed) is <<origin node id, key>>.  The map of a        *)
(* Standard trie is a function from the edges it holds to their nodes.     *)
(* A view of a trie is its `edge` field, an Option of an edge; the trie it *)
(* borrows is passed along with it.                                        *)

None == <<>>
Some(x) == <<x>>

\* The keys and values the tries of the model are built from.
Keys == {"A", "B"}
Values == {"v1", "v2"}

\* HashTrieNode::Branch and HashTrieNode::Leaf
Branch(id) == [type |-> "Branch", id |-> id]
Leaf(value) == [type |-> "Leaf", value |-> value]

\* HashTrie::Trivial and HashTrie::Standard
Trivial(value) == [kind |-> "Trivial", value |-> value]
Standard(map, next_id) == [kind |-> "Standard", map |-> map, next_id |-> next_id]

\* HashMap::new()
EmptyMap == [e \in {} |-> Leaf("v1")]

\* HashMap::insert
MapInsert(map, edge, node) ==
    [e \in DOMAIN map \cup {edge} |-> IF e = edge THEN node ELSE map[e]]

\* HashMap::get, matched against the Branch pattern: the map holds a Branch
\* under the edge.
IsBranchAt(map, edge) == edge \in DOMAIN map /\ map[edge].type = "Branch"

\* HashMap::get, matched against the Leaf pattern.
IsLeafAt(map, edge) == edge \in DOMAIN map /\ map[edge].type = "Leaf"

\* HashTrie::new
HashTrie_new == Standard(EmptyMap, 1)

\* u32::MAX at the width of the model.
IdMax == 2 ^ IdBits - 1

\* HashTrieView::value, for the view of `trie` whose edge is `edge`
View_value(trie, edge) ==
    IF trie.kind = "Trivial" /\ edge = None
    THEN Some(trie.value)
    ELSE IF trie.kind = "Standard" /\ edge # None
    THEN (IF IsLeafAt(trie.map, edge[1]) THEN Some(trie.map[edge[1]].value) ELSE None)
    ELSE None

\* View_descend with the root arm matching a trie of either kind: the root
\* of a Trivial trie has children to descend to.
View_descend_AnyRoot(trie, edge, key) ==
    IF edge = None
    THEN Some(Some(<<0, key>>))
    ELSE IF trie.kind = "Standard" /\ edge # None
    THEN (IF IsBranchAt(trie.map, edge[1])
          THEN Some(Some(<<trie.map[edge[1]].id, key>>))
          ELSE None)
    ELSE None

\* HashTrieView::descend: Some(the next view) or None
View_descend(trie, edge, key) ==
    IF trie.kind = "Standard" /\ edge = None
    THEN Some(Some(<<0, key>>))
    ELSE IF trie.kind = "Standard" /\ edge # None
    THEN (IF IsBranchAt(trie.map, edge[1])
          THEN Some(Some(<<trie.map[edge[1]].id, key>>))
          ELSE None)
    ELSE None

\* GetViewFrom with the view reached so far returned when a descend fails.
RECURSIVE GetViewFrom_KeepsLast(_, _, _)
GetViewFrom_KeepsLast(trie, edge, path) ==
    IF path = <<>> THEN Some(edge)
    ELSE LET next_view == View_descend(trie, edge, Head(path))
         IN  IF next_view = None THEN Some(edge)
             ELSE GetViewFrom_KeepsLast(trie, next_view[1], Tail(path))

\* The while-let loop of HashTrie::get_view: descend along the rest of the
\* path from the view with edge `edge`.
RECURSIVE GetViewFrom(_, _, _)
GetViewFrom(trie, edge, path) ==
    IF path = <<>> THEN Some(edge)
    ELSE LET next_view == View_descend(trie, edge, Head(path))
         IN  IF next_view = None THEN None
             ELSE GetViewFrom(trie, next_view[1], Tail(path))

\* HashTrie::as_view followed by a chain of descend calls, one for each key
\* of the path: Some(the view reached) or None
ViewAt(trie, path) == GetViewFrom(trie, None, path)

\* HashTrie::get_view: Some(the view) or None
get_view(trie, path) ==
    IF path = <<>> THEN None
    ELSE LET next_view == View_descend(trie, None, Head(path))
         IN  IF next_view = None THEN None
             ELSE GetViewFrom(trie, next_view[1], Tail(path))

\* HashTrie::get
get(trie, path) ==
    LET view == get_view(trie, path)
    IN  IF view = None THEN None ELSE View_value(trie, view[1])

\* set_value with the Branch arm writing the leaf as the None arm does: a
\* value is set on a node that has children.
set_value_OverBranch(trie, edge, new_value) ==
    IF trie.kind = "Standard" /\ edge = None
    THEN (IF DOMAIN trie.map = {}
          THEN [ret |-> TRUE, trie |-> Trivial(new_value)]
          ELSE [ret |-> FALSE, trie |-> trie])
    ELSE IF trie.kind = "Standard"
    THEN [ret |-> TRUE,
          trie |-> Standard(MapInsert(trie.map, edge[1], Leaf(new_value)), trie.next_id)]
    ELSE [ret |-> FALSE, trie |-> trie]

\* set_value with the root arm not looking at the map: the trie is made
\* Trivial whatever it holds.
set_value_RootAlways(trie, edge, new_value) ==
    IF trie.kind = "Standard" /\ edge = None
    THEN [ret |-> TRUE, trie |-> Trivial(new_value)]
    ELSE IF trie.kind = "Standard"
    THEN LET last_edge == edge[1]
         IN  IF last_edge \notin DOMAIN trie.map \/ trie.map[last_edge].type = "Leaf"
             THEN [ret |-> TRUE,
                   trie |-> Standard(MapInsert(trie.map, last_edge, Leaf(new_value)),
                                     trie.next_id)]
             ELSE [ret |-> FALSE, trie |-> trie]
    ELSE [ret |-> FALSE, trie |-> trie]

\* set_value with the Leaf arm refusing instead of overwriting.
set_value_KeepLeaf(trie, edge, new_value) ==
    IF trie.kind = "Standard" /\ edge = None
    THEN (IF DOMAIN trie.map = {}
          THEN [ret |-> TRUE, trie |-> Trivial(new_value)]
          ELSE [ret |-> FALSE, trie |-> trie])
    ELSE IF trie.kind = "Standard" /\ edge[1] \notin DOMAIN trie.map
    THEN [ret |-> TRUE,
          trie |-> Standard(MapInsert(trie.map, edge[1], Leaf(new_value)), trie.next_id)]
    ELSE [ret |-> FALSE, trie |-> trie]

\* HashTrieViewMut::set_value: the value returned and the trie afterwards
set_value(trie, edge, new_value) ==
    IF trie.kind = "Standard" /\ edge = None
    THEN (IF DOMAIN trie.map = {}
          THEN [ret |-> TRUE, trie |-> Trivial(new_value)]
          ELSE [ret |-> FALSE, trie |-> trie])
    ELSE IF trie.kind = "Standard"
    THEN LET last_edge == edge[1]
         IN  IF last_edge \notin DOMAIN trie.map
             THEN [ret |-> TRUE,
                   trie |-> Standard(MapInsert(trie.map, last_edge, Leaf(new_value)),
                                     trie.next_id)]
             ELSE IF trie.map[last_edge].type = "Leaf"
             THEN [ret |-> TRUE,
                   trie |-> Standard(MapInsert(trie.map, last_edge, Leaf(new_value)),
                                     trie.next_id)]
             ELSE [ret |-> FALSE, trie |-> trie]
    ELSE [ret |-> FALSE, trie |-> trie]

\* HashTrieViewMut::descend_or_add: Some(the next view) or None, and the
\* trie afterwards.  `overflow` tells that *next_id += 1 was run with next_id
\* at its maximum: the addition panics where overflow is checked, and wraps
\* round to 0 where it is not, which is the trie of the result.
descend_or_add(trie, edge, key) ==
    IF edge = None
    THEN [view |-> Some(Some(<<0, key>>)), trie |-> trie, overflow |-> FALSE]
    ELSE IF trie.kind = "Standard"
    THEN LET last_edge == edge[1]
         IN  IF IsBranchAt(trie.map, last_edge)
             THEN [view |-> Some(Some(<<trie.map[last_edge].id, key>>)), trie |-> trie,
                   overflow |-> FALSE]
             ELSE [view |-> Some(Some(<<trie.next_id, key>>)),
                   trie |-> Standard(MapInsert(trie.map, last_edge, Branch(trie.next_id)),
                                     IF trie.next_id = IdMax THEN 0 ELSE trie.next_id + 1),
                   overflow |-> (trie.next_id = IdMax)]
    ELSE [view |-> None, trie |-> trie, overflow |-> FALSE]

\* The for loop of HashTrie::insert and the set_value that follows it.
\* `overflow` tells that one of the descend_or_add calls overflowed next_id.
RECURSIVE InsertFrom(_, _, _, _)
InsertFrom(trie, edge, path, new_val) ==
    IF path = <<>>
    THEN LET success == set_value(trie, edge, new_val)
         IN  [ret |-> success.ret, trie |-> success.trie, overflow |-> FALSE]
    ELSE LET maybe_next == descend_or_add(trie, edge, Head(path))
         IN  IF maybe_next.view = None
             THEN [ret |-> FALSE, trie |-> maybe_next.trie, overflow |-> maybe_next.overflow]
             ELSE LET rest == InsertFrom(maybe_next.trie, maybe_next.view[1], Tail(path),
                                         new_val)
                  IN  [ret |-> rest.ret, trie |-> rest.trie,
                       overflow |-> (maybe_next.overflow \/ rest.overflow)]

\* HashTrie::insert: the value returned and the trie afterwards, for a call
\* that does not panic
insert(trie, path, new_val) == InsertFrom(trie, None, path, new_val)

\* All paths of at most n keys.
PathsUpTo(n) == UNION {[1..k -> Keys] : k \in 0..n}
Paths == PathsUpTo(MaxPathLen)

\* A call of HashTrie::insert(path, new_val).  Whether arithmetic overflow is
\* checked is a choice of the build; a call that overflows next_id under
\* overflow checks panics and never returns, and nothing runs after it.
Insert(path, new_val) ==
    /\ tr_ops < MaxInserts
    /\ tr_call.op # "panic"
    /\ \E r \in {insert(tr_trie, path, new_val)} :
       \E overflow_checks \in (IF r.overflow THEN BOOLEAN ELSE {FALSE}) :
           IF r.overflow /\ overflow_checks
           THEN /\ tr_call' = [op |-> "panic", path |-> path, val |-> new_val]
                /\ UNCHANGED <<tr_trie, tr_stored>>
           ELSE /\ tr_trie' = r.trie
                /\ tr_call' = [op |-> "insert", path |-> path, val |-> new_val,
                               ret |-> r.ret, before |-> get(tr_trie, path)]
                /\ tr_stored' = IF r.ret
                                THEN [p \in DOMAIN tr_stored \cup {path} |->
                                         IF p = path THEN new_val ELSE tr_stored[p]]
                                ELSE tr_stored
    /\ tr_ops' = tr_ops + 1
    /\ UNCHANGED <<tkVars, rcVars, kmVars, liVars>>

----------------------------------------------------------------------------
(* Edge keys, src/src/trie/key_pair.rs, and the HashMap that is keyed by   *)
(* them.  The map stores owned keys, Pair(node id, key), and is read with  *)
(* borrowed keys, HalfBorrowed(node id, &key), through the trait object    *)
(* KeyPair.  A Hasher is modelled by the sequence of values written to it; *)
(* the map puts an entry in the bucket its hash selects and tells the      *)
(* entries of a bucket apart with Eq.                                      *)

\* struct Pair<A, B>(pub A, pub B)
Pair(a, b) == [form |-> "Pair", f0 |-> a, f1 |-> b]

\* struct HalfBorrowed<'b, A, B>(pub A, pub &'b B)
HalfBorrowed(a, b) == [form |-> "HalfBorrowed", f0 |-> a, ref1 |-> b]

\* KeyPair::a and KeyPair::b, for Pair and for HalfBorrowed
KeyPair_a(k) == k.f0
KeyPair_b(k) == IF k.form = "Pair" THEN k.f1 ELSE k.ref1

\* Hash for u32 and Hash for the key type K: what a node id and a key write
\* to the hasher, a node id itself and a key its rank.
u32_hash(n) == n
Key_hash(k) == IF k = "A" THEN 1 ELSE 2

\* #[derive(Hash)] for Pair: the fields are written to the hasher in order.
Pair_hash(p) == <<u32_hash(p.f0), Key_hash(p.f1)>>

\* Hash for dyn KeyPair with only a() written to the hasher.
KeyPair_hash_FirstOnly(k) == <<u32_hash(KeyPair_a(k))>>

\* impl Hash for dyn KeyPair
KeyPair_hash(k) == <<u32_hash(KeyPair_a(k)), Key_hash(KeyPair_b(k))>>

\* #[derive(PartialEq)] for Pair
Pair_eq(p, q) == p.f0 = q.f0 /\ p.f1 = q.f1

\* PartialEq for dyn KeyPair with only a() compared.
KeyPair_eq_FirstOnly(k, other) == KeyPair_a(k) = KeyPair_a(other)

\* impl PartialEq for dyn KeyPair
KeyPair_eq(k, other) == KeyPair_a(k) = KeyPair_a(other) /\ KeyPair_b(k) = KeyPair_b(other)

\* impl Borrow<dyn KeyPair> for Pair: the pair itself, seen as a KeyPair
Pair_borrow(p) == p

\* Hasher::finish and the choice of the bucket: a function of the values
\* written to the hasher and of their order, under which different keys can
\* fall in one bucket.
RECURSIVE Hasher_finish(_)
Hasher_finish(writes) ==
    IF writes = <<>> THEN 0
    ELSE Hasher_finish(SubSeq(writes, 1, Len(writes) - 1)) + Len(writes) * writes[Len(writes)]
BucketOf(writes) == Hasher_finish(writes) % NumBuckets

\* HashMap::new
HashMap_new == [h \in 0..(NumBuckets - 1) |-> <<>>]

\* HashMap::insert(key, node) with an owned key: the entry with an equal key
\* is replaced, or a new entry is added to the bucket of the key's hash.
HashMap_insert(map, key, node) ==
    LET h      == BucketOf(Pair_hash(key))
        bucket == map[h]
        same   == {i \in 1..Len(bucket) : Pair_eq(bucket[i].key, key)}
    IN  IF same = {}
        THEN [map EXCEPT ![h] = Append(bucket, [key |-> key, node |-> node])]
        ELSE [map EXCEPT ![h] = [i \in 1..Len(bucket) |->
                                    IF i \in same THEN [key |-> bucket[i].key, node |-> node]
                                    ELSE bucket[i]]]

\* HashMap::get(q) with q a &dyn KeyPair: the bucket of q's hash is searched
\* for an entry whose key, borrowed as a KeyPair, equals q.
HashMap_get(map, q) ==
    LET bucket == map[BucketOf(KeyPair_hash(q))]
        found  == {i \in 1..Len(bucket) : KeyPair_eq(Pair_borrow(bucket[i].key), q)}
    IN  IF found = {} THEN None
        ELSE Some(bucket[CHOOSE i \in found : \A j \in found : i <= j].node)

\* The node ids and the nodes of the edge-key model.
EdgeIds == 0..MaxEdgeId
EdgeNodes == {Branch(1), Leaf("v1"), Leaf("v2")}

\* map.insert(Pair(n, k), node), as set_value and descend_or_add do it
MapInsertOwned(n, k, node) ==
    /\ km_map' = HashMap_insert(km_map, Pair(n, k), node)
    /\ km_stored' = [e \in DOMAIN km_stored \cup {<<n, k>>} |->
                        IF e = <<n, k>> THEN node ELSE km_stored[e]]
    /\ UNCHANGED <<tkVars, trVars, rcVars, liVars>>

----------------------------------------------------------------------------
(* Macro store, builder and expander: src/src/macro_def.rs,                *)
(* src/src/builder.rs, src/src/main.rs                                     *)

\* Macros::new
Macros_new == [contents |-> HashTrie_new]

\* Macros::read_macro: its body is a TODO comment, the store is left as it is.
Macros_read_macro(macros, tokens) == macros

\* Macros::read_macros: its body is a TODO comment, the store is left as it is.
Macros_read_macros(macros, tokens) == macros

\* The texts of the macro files of the model: a simple macro and a
\* function-style macro.
Src_Simple == <<"n", "a", "m", "e", " ", "=", " ", "X", "\n">>
Src_Func == <<"f", "(", "a", ")", " ", "=", " ", "a", "\n">>
MacroFileTexts == {Src_Simple, Src_Func}

\* The input texts of the model.
InputTexts ==
    { <<>>,
      <<"n", "a", "m", "e">>,
      <<"n", "a", "m", "e", "\n">>,
      <<"{", " ", "n", "a", "m", "e", " ", "}", "\n">>,
      <<"[", "n", "a", "m", "e", "]", "\n">>,
      <<"(", "n", "a", "m", "e", ")", "\n">> }

\* A macro file is Some(its text), or None when File::open fails on it.
MacroFiles == {None} \cup {Some(t) : t \in MacroFileTexts}

\* The Tasks of the model: at least one macro file (get_task), the text of
\* the input, whether the input can be opened and the output created.
Tasks ==
    [macro_files : UNION {[1..k -> MacroFiles] : k \in 1..MaxFiles},
     input       : InputTexts,
     in_opens    : BOOLEAN,
     out_creates : BOOLEAN]

\* read_macros with the result of File::open dropped instead of returned:
\* the file that does not open is passed over and the build goes on.
ReadMacrosOpenFails_Skips ==
    /\ rc_pc = "build"
    /\ rc_file_idx < Len(rc_task.macro_files)
    /\ rc_task.macro_files[rc_file_idx + 1] = None
    /\ rc_file_idx' = rc_file_idx + 1
    /\ UNCHANGED <<rc_task, rc_pc, rc_macros, rc_tokens, rc_remaining, rc_out, rc_effects>>
    /\ UNCHANGED <<tkVars, trVars, kmVars, liVars>>

\* builder::read_macros on a file that File::open fails on: the error is
\* returned through build_macros and run_command.
ReadMacrosOpenFails ==
    /\ rc_pc = "build"
    /\ rc_file_idx < Len(rc_task.macro_files)
    /\ rc_task.macro_files[rc_file_idx + 1] = None
    /\ rc_pc' = "failed"
    /\ UNCHANGED <<rc_task, rc_file_idx, rc_macros, rc_tokens, rc_remaining, rc_out, rc_effects>>
    /\ UNCHANGED <<tkVars, trVars, kmVars, liVars>>

\* builder::read_macros on a file that opens: the file is read, tokenized
\* and handed to Macros::read_macros.
ReadMacros ==
    /\ rc_pc = "build"
    /\ rc_file_idx < Len(rc_task.macro_files)
    /\ rc_task.macro_files[rc_file_idx + 1] # None
    /\ LET file_data == rc_task.macro_files[rc_file_idx + 1][1]
           tokens    == tokenize(file_data)
       IN  rc_macros' = Macros_read_macros(rc_macros, tokens)
    /\ rc_file_idx' = rc_file_idx + 1
    /\ UNCHANGED <<rc_task, rc_pc, rc_tokens, rc_remaining, rc_out, rc_effects>>
    /\ UNCHANGED <<tkVars, trVars, kmVars, liVars>>

\* builder::build_macros returns Ok(macros) after the last file.
BuildMacrosOk ==
    /\ rc_pc = "build"
    /\ rc_file_idx = Len(rc_task.macro_files)
    /\ rc_pc' = "input"
    /\ UNCHANGED <<rc_task, rc_file_idx, rc_macros, rc_tokens, rc_remaining, rc_out, rc_effects>>
    /\ UNCHANGED <<tkVars, trVars, kmVars, liVars>>

\* run_command reads the input: the file is opened and read, or opening it
\* fails and the error is returned.
ReadInput ==
    /\ rc_pc = "input"
    /\ rc_pc' = IF rc_task.in_opens THEN "output" ELSE "failed"
    /\ rc_effects' = IF rc_task.in_opens THEN rc_effects \cup {"input_read"} ELSE rc_effects
    /\ UNCHANGED <<rc_task, rc_file_idx, rc_macros, rc_tokens, rc_remaining, rc_out>>
    /\ UNCHANGED <<tkVars, trVars, kmVars, liVars>>

\* run_command creates the output stream and calls Tokenizer::tokenize on
\* the input; or creating the output file fails and the error is returned.
CreateOutput ==
    /\ rc_pc = "output"
    /\ IF rc_task.out_creates
       THEN /\ rc_pc' = "tokenize"
            /\ rc_effects' = rc_effects \cup {"output_created"}
            /\ tk_input' = rc_task.input
            /\ tk_start' = rc_task.input
            /\ tk_output' = <<>>
            /\ tk_pc' = "loop"
       ELSE /\ rc_pc' = "failed"
            /\ UNCHANGED rc_effects
            /\ UNCHANGED tkVars
    /\ UNCHANGED <<rc_task, rc_file_idx, rc_macros, rc_tokens, rc_remaining, rc_out>>
    /\ UNCHANGED <<trVars, kmVars, liVars>>

\* run_command calls Macros::expand_tokens on the tokens of the input, and
\* expand_tokens sets `remaining` to its input.
ExpandEnter ==
    /\ rc_pc = "tokenize"
    /\ tk_pc = "done"
    /\ rc_pc' = "expand"
    /\ rc_tokens' = tk_output
    /\ rc_remaining' = tk_output
    /\ UNCHANGED <<rc_task, rc_file_idx, rc_macros, rc_out, rc_effects>>
    /\ UNCHANGED <<tkVars, trVars, kmVars, liVars>>

\* The test of the while loop of Macros::expand_tokens finds input
\* remaining and the body is entered.
ExpandLoop ==
    /\ rc_pc = "expand"
    /\ rc_remaining # <<>>
    /\ rc_pc' = "match"
    /\ UNCHANGED <<rc_task, rc_file_idx, rc_macros, rc_tokens, rc_remaining, rc_out, rc_effects>>
    /\ UNCHANGED <<tkVars, trVars, kmVars, liVars>>

\* ExpandMatch with an arm that writes: the value of the first token is
\* stored in the macro store as a path of one key.
ExpandMatch_Stores ==
    /\ rc_pc = "match"
    /\ rc_macros' = [contents |-> insert(rc_macros.contents, <<rc_tokens[1].value>>, "v1").trie]
    /\ rc_pc' = "expand"
    /\ UNCHANGED <<rc_task, rc_file_idx, rc_tokens, rc_remaining, rc_out, rc_effects>>
    /\ UNCHANGED <<tkVars, trVars, kmVars, liVars>>

\* The body of the while loop of Macros::expand_tokens: the first token of
\* the input is matched against "{", "[", "(" and anything else, every arm
\* of the match is empty, and control goes back to the test of the loop.
ExpandMatch ==
    /\ rc_pc = "match"
    /\ LET token == rc_tokens[1]
       IN  CASE token.value = <<"{">> -> TRUE
             [] token.value = <<"[">> -> TRUE
             [] token.value = <<"(">> -> TRUE
             [] OTHER -> TRUE
    /\ rc_pc' = "expand"
    /\ UNCHANGED <<rc_task, rc_file_idx, rc_macros, rc_tokens, rc_remaining, rc_out, rc_effects>>
    /\ UNCHANGED <<tkVars, trVars, kmVars, liVars>>

\* Macros::expand_tokens leaves the loop and returns Ok(()).
ExpandReturn ==
    /\ rc_pc = "expand"
    /\ rc_remaining = <<>>
    /\ rc_pc' = "done"
    /\ UNCHANGED <<rc_task, rc_file_idx, rc_macros, rc_tokens, rc_remaining, rc_out, rc_effects>>
    /\ UNCHANGED <<tkVars, trVars, kmVars, liVars>>


----------------------------------------------------------------------------
(* Line iterator and expand_file: src/src/bufread_iter.rs,                 *)
(* src/src/io_helpers.rs, src/src/expander.rs                              *)
(*                                                                         *)
(* A reader over a finite stream is the sequence of outcomes its read_line *)
(* calls have before the end of the stream: Ok with the line read (up to   *)
(* and with its newline), or Err.  At the end of the stream read_line      *)
(* reads nothing and returns Ok(0).                                        *)

\* The lines the readers of the model hold.
LineTexts == {<<"a", "\n">>, <<"\n">>}

\* The outcomes of a read_line call before the end of the stream.
ReadOk(line) == [ok |-> TRUE, line |-> line]
ReadErr == [ok |-> FALSE]
ReadOutcomes == {ReadOk(l) : l \in LineTexts} \cup {ReadErr}

\* The readers of the model.
Readers == UNION {[1..n -> ReadOutcomes] : n \in 0..MaxLines}

\* BufRead::read_line(&mut result) on an empty `result`: the Result it
\* returns (ok, and the byte count n), `result` after the call, and the
\* reader after the call.
read_line(reader) ==
    IF reader = <<>>
    THEN [ok |-> TRUE, n |-> 0, result |-> <<>>, reader |-> reader]
    ELSE IF Head(reader).ok
         THEN [ok |-> TRUE, n |-> Len(Head(reader).line), result |-> Head(reader).line,
               reader |-> Tail(reader)]
         ELSE [ok |-> FALSE, n |-> 0, result |-> <<>>, reader |-> Tail(reader)]

\* BufReadIter::next: Some(result) whenever read_line returns Ok, whatever
\* the count, and None when it returns Err.
BufReadIter_next(reader) ==
    LET read == read_line(reader)
    IN  [ret    |-> IF read.ok THEN Some(read.result) ELSE None,
         reader |-> read.reader]

\* expand_file evaluates the head of its while-let loop: line_iter.next()
\* is called; on Some(line) the body is entered, on None the loop is left
\* and expand_file returns Ok(()).
ExpandFileNext ==
    /\ li_pc = "next"
    /\ \E r \in {BufReadIter_next(li_reader)} :
          /\ li_reader' = r.reader
          /\ li_line' = r.ret
          /\ li_pc' = IF r.ret # None THEN "body" ELSE "done"
    /\ UNCHANGED <<tkVars, trVars, rcVars, kmVars>>

\* The body of the while-let loop of expand_file: it is empty, `line` is
\* dropped and control goes back to the head of the loop.
ExpandFileBody ==
    /\ li_pc = "body"
    /\ li_line' = None
    /\ li_pc' = "next"
    /\ UNCHANGED li_reader
    /\ UNCHANGED <<tkVars, trVars, rcVars, kmVars>>

----------------------------------------------------------------------------
(* Initial states and specifications.  Each specification runs one part   *)
(* of the program and leaves the variables of the other parts idle.       *)

NoCall == [op |-> "none"]

\* No path is recorded as stored.
NoneStored == [p \in {} |-> "v1"]

TrieIdle ==
    /\ tr_trie = HashTrie_new
    /\ tr_call = NoCall
    /\ tr_stored = NoneStored
    /\ tr_ops = 0

TokIdle ==
    /\ tk_input = <<>>
    /\ tk_start = <<>>
    /\ tk_output = <<>>
    /\ tk_pc = "done"

\* The state of a run before run_command has built anything.
RunStart ==
    /\ rc_pc = "build"
    /\ rc_file_idx = 0
    /\ rc_macros = Macros_new
    /\ rc_tokens = <<>>
    /\ rc_remaining = <<>>
    /\ rc_out = <<>>
    /\ rc_effects = {}

RunIdle ==
    /\ rc_task = [macro_files |-> <<>>, input |-> <<>>, in_opens |-> TRUE, out_creates |-> TRUE]
    /\ RunStart

\* No edge has been put in the map.
NoEdges == [e \in {} |-> Branch(1)]

\* No reader is being iterated.
LinesIdle ==
    /\ li_reader = <<>>
    /\ li_line = None
    /\ li_pc = "done"

KeyMapIdle ==
    /\ km_map = HashMap_new
    /\ km_stored = NoEdges

\* All strings over the alphabet of at most n characters.
StringsUpTo(n) == UNION {[1..k -> Alphabet] : k \in 0..n}

InitTok ==
    /\ tk_input \in StringsUpTo(MaxLen)
    /\ tk_start = tk_input
    /\ tk_output = <<>>
    /\ tk_pc = "loop"
    /\ TrieIdle
    /\ RunIdle
    /\ KeyMapIdle
    /\ LinesIdle

NextTok == TokenizePush \/ TokenizeBreak

SpecTok == InitTok /\ [][NextTok]_vars

\* A call of tokenize keeps running until it returns.
FairSpecTok == SpecTok /\ WF_vars(NextTok)

InitTrie == TrieIdle /\ TokIdle /\ RunIdle /\ KeyMapIdle /\ LinesIdle

\* HashTrie::get takes &self and changes nothing: it is the operator get,
\* evaluated on tr_trie where a property speaks of a get call.
NextTrie == \E path \in Paths, new_val \in Values : Insert(path, new_val)

SpecTrie == InitTrie /\ [][NextTrie]_vars

\* A key that is not among Keys, and the path of n such keys.
DeepKey == "C"
DeepPath(n) == [i \in 1..n |-> DeepKey]

\* A trie late in its life: the trie after HashTrie::new() and one insert of a
\* path of n keys, which has allocated the node ids 1 to n - 1 and left next_id
\* at n.
LateTrie(n) == insert(HashTrie_new, DeepPath(n), "v1").trie

\* The trie has one or no node id left below the maximum.
InitTrieLate ==
    /\ \E n \in {IdMax - 1, IdMax} :
          /\ tr_trie = LateTrie(n)
          /\ tr_stored = [p \in {DeepPath(n)} |-> "v1"]
    /\ tr_call = NoCall
    /\ tr_ops = 0
    /\ TokIdle
    /\ RunIdle
    /\ KeyMapIdle
    /\ LinesIdle

SpecTrieLate == InitTrieLate /\ [][NextTrie]_vars

InitRun ==
    /\ rc_task \in Tasks
    /\ RunStart
    /\ TrieIdle
    /\ TokIdle
    /\ KeyMapIdle
    /\ LinesIdle

NextRun ==
    \/ ReadMacrosOpenFails
    \/ ReadMacros
    \/ BuildMacrosOk
    \/ ReadInput
    \/ CreateOutput
    \/ TokenizePush
    \/ TokenizeBreak
    \/ ExpandEnter
    \/ ExpandLoop
    \/ ExpandMatch
    \/ ExpandReturn

SpecRun == InitRun /\ [][NextRun]_vars

\* The program is one thread that keeps running until run_command returns.
FairSpecRun == SpecRun /\ WF_vars(NextRun)

InitKeyMap == KeyMapIdle /\ TrieIdle /\ TokIdle /\ RunIdle /\ LinesIdle

NextKeyMap ==
    \E n \in EdgeIds, k \in Keys, node \in EdgeNodes : MapInsertOwned(n, k, node)

SpecKeyMap == InitKeyMap /\ [][NextKeyMap]_vars

InitLines ==
    /\ li_reader \in Readers
    /\ li_line = None
    /\ li_pc = "next"
    /\ TrieIdle
    /\ TokIdle
    /\ RunIdle
    /\ KeyMapIdle

NextLines ==
    \/ ExpandFileNext
    \/ ExpandFileBody

SpecLines == InitLines /\ [][NextLines]_vars

\* expand_file is one thread that keeps running until it returns.
FairSpecLines == SpecLines /\ WF_vars(NextLines)


----------------------------------------------------------------------------
(* Properties of the tokenizer.                                            *)

\* The characters of a token sequence: every value followed by its suffix.
RECURSIVE Render(_)
Render(tokens) ==
    IF tokens = <<>> THEN <<>>
    ELSE tokens[1].value \o tokens[1].suffix \o Render(Tail(tokens))

\* C1: once tokenize has returned, concatenating every token's value and
\* suffix in order gives back the input exactly.
C1_RoundTrip == tk_pc = "done" => Render(tk_output) = tk_input

\* C7: once tokenize has returned, every occurrence of a singleton character
\* in the input is a token of its own (a token that starts at that position
\* and whose value is that one character), and no token value of more than
\* one character contains a singleton.
C7_SingletonIsolation ==
    tk_pc = "done" =>
        /\ \A i \in 1..Len(tk_input) :
              tk_input[i] \in singletons =>
                  \E k \in 1..Len(tk_output) :
                      /\ tk_output[k].value = <<tk_input[i]>>
                      /\ Len(Render(SubSeq(tk_output, 1, k - 1))) = i - 1
        /\ \A k \in 1..Len(tk_output) :
              (\E j \in 1..Len(tk_output[k].value) : tk_output[k].value[j] \in singletons)
                  => Len(tk_output[k].value) = 1

\* C7 witness: tokenize has returned on an input in which a singleton follows
\* an ordinary character, is followed by another singleton and later by a
\* separator, and each of the two singletons is a token.
C7_Witness ==
    /\ tk_pc = "done"
    /\ \E i \in 1..(Len(tk_input) - 3) :
          /\ tk_input[i] \notin singletons \cup separators
          /\ tk_input[i + 1] \in singletons
          /\ tk_input[i + 2] \in singletons
          /\ tk_input[i + 3] \in separators
    /\ Cardinality({k \in 1..Len(tk_output) :
                       Len(tk_output[k].value) = 1 /\ tk_output[k].value[1] \in singletons}) >= 2

\* The number of input characters consumed before the k-th token.
TokenStart(k) == Len(Render(SubSeq(tk_output, 1, k - 1)))

\* C22: every token produced by tokenize has a value without a separator
\* character and a suffix made of separator characters only; the token is the
\* text of the input at its position, and its suffix is the whole run of
\* separators that follows its value there (the character after the suffix,
\* if there is one, is not a separator).
C22_SeparatorHandling ==
    \A k \in 1..Len(tk_output) :
        LET value     == tk_output[k].value
            suffix    == tk_output[k].suffix
            value_at  == TokenStart(k)
            suffix_at == value_at + Len(value)
            after     == suffix_at + Len(suffix)
        IN  /\ \A i \in 1..Len(value) : value[i] \notin separators
            /\ \A i \in 1..Len(suffix) : suffix[i] \in separators
            /\ after <= Len(tk_input)
            /\ SubSeq(tk_input, value_at + 1, suffix_at) = value
            /\ SubSeq(tk_input, suffix_at + 1, after) = suffix
            /\ after < Len(tk_input) => tk_input[after + 1] \notin separators

\* C22 witness: tokenize has returned a token with a value and a suffix of
\* two separators or more, followed by another token.
C22_Witness ==
    /\ tk_pc = "done"
    /\ \E k \in 1..(Len(tk_output) - 1) :
          /\ Len(tk_output[k].value) > 0
          /\ Len(tk_output[k].suffix) >= 2

\* C23: tokenize stops only when no unread character remains.
C23_StopsOnlyAtEnd == tk_pc = "done" => tk_start = <<>>

\* C11: every pass through the loop of tokenize that does not stop leaves
\* strictly less input unread, and every call of tokenize returns.
C11_TokenizeTerminates ==
    /\ [][TokenizePush => Len(tk_start') < Len(tk_start)]_vars
    /\ (tk_pc = "loop") ~> (tk_pc = "done")

\* C11 witness: tokenize has returned after at least three passes through
\* its loop, two that pushed a token and the one that stopped.
C11_Witness ==
    /\ tk_pc = "done"
    /\ Len(tk_output) >= 2
    /\ tk_start = <<>>

----------------------------------------------------------------------------
(* Properties of the trie.                                                 *)

\* p is a strict prefix of q.
StrictPrefix(p, q) == Len(p) < Len(q) /\ SubSeq(q, 1, Len(p)) = p

\* The id of the node that the first i keys of q lead to from the root of a
\* Standard trie through Branch nodes, or -1 when they lead to none.
RECURSIVE NodeAlong(_, _, _)
NodeAlong(trie, q, i) ==
    IF i = 0 THEN 0
    ELSE LET from == NodeAlong(trie, q, i - 1)
         IN  IF from # -1 /\ IsBranchAt(trie.map, <<from, q[i]>>)
             THEN trie.map[<<from, q[i]>>].id
             ELSE -1

\* The path q is stored in the trie: it is the empty path of a Trivial
\* trie, or its keys label a chain of edges of the map that starts at the
\* root, passes through Branch nodes only and ends in a Leaf.
StoredIn(trie, q) ==
    IF trie.kind = "Trivial" THEN q = <<>>
    ELSE /\ Len(q) >= 1
         /\ LET from == NodeAlong(trie, q, Len(q) - 1)
            IN  from # -1 /\ IsLeafAt(trie.map, <<from, q[Len(q)]>>)

\* C2: an insert of a path returns false whenever a path stored by an
\* earlier successful insert is a strict prefix of it, or it is a strict
\* prefix of such a path.
C2_PrefixConflictRejected ==
    [][(\E q \in DOMAIN tr_stored :
            StrictPrefix(q, tr_call'.path) \/ StrictPrefix(tr_call'.path, q))
        => tr_call'.ret = FALSE]_vars

\* C3: when insert(p, v) has returned true, a get(p) that follows it at once
\* returns v, for every path p, the empty path included.
C3_InsertGetRoundTrip ==
    (tr_call.op = "insert" /\ tr_call.ret)
        => get(tr_trie, tr_call.path) = Some(tr_call.val)

\* C4: once insert(p, v) has returned true, get(p) returns v after every
\* later insert call on a path other than p.
C4_StoredValuesSurvive ==
    \A p \in DOMAIN tr_stored :
        (tr_call.op = "insert" /\ tr_call.path # p)
            => get(tr_trie, p) = Some(tr_stored[p])

C9_GetOnlyOnLeaf ==
    \A p \in Paths :
        (\/ p \notin DOMAIN tr_stored
         \/ \E q \in Paths : StrictPrefix(p, q) /\ (q \in DOMAIN tr_stored \/ StoredIn(tr_trie, q))
         \/ \E q \in Paths : StrictPrefix(q, p) /\ StoredIn(tr_trie, q))
            => get(tr_trie, p) = None

\* C9 witness: the trie holds a path of two keys, so that a strict prefix of
\* a stored path, a path past a stored leaf and a path never stored exist.
C9_Witness ==
    /\ \E q \in Paths : Len(q) = 2 /\ StoredIn(tr_trie, q) /\ get(tr_trie, q) # None
    /\ \E p \in Paths : Len(p) = 2 /\ p \notin DOMAIN tr_stored
    /\ \E p, q \in Paths : StrictPrefix(q, p) /\ StoredIn(tr_trie, q)

\* The path p leads to a leaf: the view reached from the root view by
\* descending along p exists and has a value.
LeadsToLeaf(trie, p) ==
    LET view == ViewAt(trie, p)
    IN  view # None /\ View_value(trie, view[1]) # None

\* C17: of the paths that lead to a leaf of the trie none is a strict prefix
\* of another: no strict prefix of a path that leads to a leaf leads to a
\* leaf.
C17_PrefixFree ==
    \A q \in Paths :
        LeadsToLeaf(tr_trie, q) =>
            \A i \in 0..(Len(q) - 1) : ~LeadsToLeaf(tr_trie, SubSeq(q, 1, i))

\* C17 witness: two paths lead to a leaf, and a path that was stored is a
\* strict prefix of one of them (its leaf has been replaced by a branch).
C17_Witness ==
    /\ \E p, q \in Paths : p # q /\ LeadsToLeaf(tr_trie, p) /\ LeadsToLeaf(tr_trie, q)
    /\ \E p \in Paths, s \in DOMAIN tr_stored : LeadsToLeaf(tr_trie, p) /\ StrictPrefix(s, p)

\* The trie holds a stored path.
HoldsPath(trie) == \E p \in Paths : LeadsToLeaf(trie, p)

\* C18: an insert of the empty path returns true only on a trie that holds
\* no path, and leaves the trie Trivial with the value; every insert on a
\* Trivial trie returns false and leaves the trie as it was; an insert of the
\* empty path on a trie that holds a path returns false.
C18_EmptyPathExclusive ==
    [][tr_call'.op = "insert" =>
          /\ (tr_call'.path = <<>> /\ tr_call'.ret) =>
                 (~HoldsPath(tr_trie) /\ tr_trie' = Trivial(tr_call'.val))
          /\ tr_trie.kind = "Trivial" =>
                 (tr_call'.ret = FALSE /\ tr_trie' = tr_trie)
          /\ (tr_call'.path = <<>> /\ HoldsPath(tr_trie)) => tr_call'.ret = FALSE]_vars

\* C18 witness: the trie is Trivial, and the last insert on it, of a path
\* that is not empty, was made on the Trivial trie and returned false.
C18_Witness ==
    /\ tr_trie.kind = "Trivial"
    /\ tr_ops >= 2
    /\ tr_call.op = "insert"
    /\ tr_call.path # <<>>
    /\ tr_call.ret = FALSE

\* The edges of the views of the trie that can have a value: that of the
\* root view, and those of the views of the edges of the map (a view of an
\* edge that is not in the map has no value).
ViewEdges(trie) ==
    {None} \cup (IF trie.kind = "Standard" THEN {Some(e) : e \in DOMAIN trie.map} ELSE {})

\* C19: a view that has a value has no view to descend to: for the root
\* view and the view of every edge of the trie, when value() returns a
\* value, descend(k) returns nothing for every key k.
C19_ValueOrEdges ==
    \A edge \in ViewEdges(tr_trie) :
        View_value(tr_trie, edge) # None =>
            \A k \in Keys : View_descend(tr_trie, edge, k) = None

\* C19 witness: a view with a value that is reached from the root view by
\* two descend calls, next to a view of a branch, which has none.
C19_Witness ==
    /\ \E p \in Paths : Len(p) = 2 /\ LeadsToLeaf(tr_trie, p)
    /\ \E edge \in ViewEdges(tr_trie), k \in Keys :
          View_value(tr_trie, edge) = None /\ View_descend(tr_trie, edge, k) # None

\* The edge that leads from the node of the view with edge `edge` along key.
ChildEdge(trie, edge, key) ==
    IF edge = None THEN <<0, key>> ELSE <<trie.map[edge[1]].id, key>>

\* C20: descend(k) returns a view only from the root or a branch that has a
\* child under k, and get_view(path) returns a view only when every edge of
\* the path is in the trie.
C20_DescendOnlyToExisting ==
    /\ \A p \in Paths, k \in Keys :
          (ViewAt(tr_trie, p) # None /\ View_descend(tr_trie, ViewAt(tr_trie, p)[1], k) # None)
              => ChildEdge(tr_trie, ViewAt(tr_trie, p)[1], k) \in DOMAIN tr_trie.map
    /\ \A p \in Paths :
          get_view(tr_trie, p) # None => get_view(tr_trie, p)[1][1] \in DOMAIN tr_trie.map

\* The edges of the map of a Standard trie that hold a Branch.
BranchEdges(trie) == {e \in DOMAIN trie.map : trie.map[e].type = "Branch"}

\* C21: in a Standard trie next_id is at least 1, every Branch id is at
\* least 1 and less than next_id, no two Branch entries share an id, and the
\* origin of every edge is 0 or the id of a Branch of the map; and next_id
\* never decreases.
C21_NodeIdAllocation ==
    /\ [](tr_trie.kind = "Standard" =>
             /\ tr_trie.next_id >= 1
             /\ \A e \in BranchEdges(tr_trie) :
                   tr_trie.map[e].id >= 1 /\ tr_trie.map[e].id < tr_trie.next_id
             /\ \A e1, e2 \in BranchEdges(tr_trie) :
                   tr_trie.map[e1].id = tr_trie.map[e2].id => e1 = e2
             /\ \A e \in DOMAIN tr_trie.map :
                   e[1] = 0 \/ \E b \in BranchEdges(tr_trie) : tr_trie.map[b].id = e[1])
    /\ [][(tr_trie.kind = "Standard" /\ tr_trie'.kind = "Standard")
              => tr_trie'.next_id >= tr_trie.next_id]_vars

\* C24: an insert that returns false leaves the trie exactly as it was
\* before the call.
C24_FailedInsertNoEffect ==
    [][(tr_call'.op = "insert" /\ tr_call'.ret = FALSE) => tr_trie' = tr_trie]_vars

\* C12: no call of insert panics; every call returns true or false, also
\* when a branch is allocated with next_id at its maximum.
C12_InsertNeverPanics == tr_call.op # "panic"

----------------------------------------------------------------------------
(* Properties of the edge keys.                                            *)

\* C16: a lookup with the borrowed key HalfBorrowed(n, &k) finds the node
\* stored under the owned key Pair(n, k), and finds nothing when no entry was
\* stored under that node id and that key, whatever is stored under keys with
\* another node id or another key.
C16_OwnedBorrowedInterchangeable ==
    \A n \in EdgeIds, k \in Keys :
        HashMap_get(km_map, HalfBorrowed(n, k)) =
            IF <<n, k>> \in DOMAIN km_stored THEN Some(km_stored[<<n, k>>]) ELSE None

\* C16 witness: one bucket of the map holds two entries, both are read back
\* with their borrowed keys, and a borrowed key finds nothing although the
\* map holds an entry with its node id and an entry with its key.
C16_Witness ==
    /\ \E h \in DOMAIN km_map :
          /\ Len(km_map[h]) >= 2
          /\ \A i \in 1..Len(km_map[h]) :
                HashMap_get(km_map, HalfBorrowed(km_map[h][i].key.f0, km_map[h][i].key.f1))
                    = Some(km_map[h][i].node)
    /\ \E n \in EdgeIds, k \in Keys :
          /\ HashMap_get(km_map, HalfBorrowed(n, k)) = None
          /\ \E k2 \in Keys : <<n, k2>> \in DOMAIN km_stored
          /\ \E n2 \in EdgeIds : <<n2, k>> \in DOMAIN km_stored

----------------------------------------------------------------------------
(* Properties of the expander.                                             *)

\* One of the macro files of the task cannot be opened.
MacroFileUnopenable ==
    \E i \in 1..Len(rc_task.macro_files) : rc_task.macro_files[i] = None

\* C13: when a macro file cannot be opened, run_command ends with the error
\* of the build, and at no time has it read the input, created the output
\* file or written any output.
C13_BuildFailurePrecedesOutput ==
    /\ [](MacroFileUnopenable =>
             /\ rc_pc \in {"build", "failed"}
             /\ rc_effects = {}
             /\ rc_out = <<>>)
    /\ (rc_pc = "build" /\ MacroFileUnopenable) ~> (rc_pc = "failed")

\* C13 witness: the build has failed on its second macro file, after the
\* first was read.
C13_Witness ==
    /\ rc_pc = "failed"
    /\ rc_file_idx = 1
    /\ Len(rc_task.macro_files) >= 2
    /\ rc_task.macro_files[2] = None

\* Two of the macro files of the task hold the same text, and so define the
\* same pattern twice.
SamePatternTwice ==
    \E i, j \in 1..Len(rc_task.macro_files) :
        /\ i < j
        /\ rc_task.macro_files[i] # None
        /\ rc_task.macro_files[i] = rc_task.macro_files[j]

\* C14: when the macro files define the same pattern twice, the run never
\* gets past building the macro store: the build ends in an error.
C14_ConflictRejected ==
    SamePatternTwice => rc_pc \in {"build", "failed"}

\* C5: expand_tokens, run on tokens that match no stored pattern, returns
\* with every token's value and suffix written out unchanged and in order.
C5_PassThrough ==
    (rc_pc = "expand" /\ rc_macros.contents = HashTrie_new)
        ~> (rc_pc = "done" /\ rc_out = Render(rc_tokens))

\* C6: expand_tokens returns on every token sequence, and every pass
\* through its main loop leaves strictly less input remaining.
C6_ExpansionTerminates ==
    /\ [][ExpandMatch => Len(rc_remaining') < Len(rc_remaining)]_vars
    /\ (rc_pc = "expand") ~> (rc_pc = "done")

\* The macro files read by build_macros include the simple macro name = X.
BuiltFromSimple ==
    /\ rc_file_idx = Len(rc_task.macro_files)
    /\ \E i \in 1..Len(rc_task.macro_files) : rc_task.macro_files[i] = Some(Src_Simple)

\* C10: with a store built from a source that holds name = X, expanding the
\* input made of the single token name returns with X written in its place.
C10_SimpleSubstitution ==
    (/\ rc_pc = "expand"
     /\ BuiltFromSimple
     /\ Len(rc_tokens) = 1
     /\ rc_tokens[1].value = <<"n", "a", "m", "e">>)
        ~> (rc_pc = "done" /\ Len(rc_tokens) = 1 /\ rc_out = <<"X">> \o rc_tokens[1].suffix)

\* The control points of run_command that lie inside Macros::expand_tokens.
InExpandTokens == {"expand", "match"}

\* C25: every step that enters Macros::expand_tokens, is taken inside it or
\* returns from it leaves the macro store (the edge map with its values, and
\* next_id) as it was.
C25_StoreReadOnly ==
    [][(rc_pc \in InExpandTokens \/ rc_pc' \in InExpandTokens)
           => rc_macros' = rc_macros]_vars

\* C25 witness: expand_tokens is in the body of its loop, on a token list
\* that is not empty, with the store as build_macros returned it.
C25_Witness ==
    /\ rc_pc = "match"
    /\ rc_tokens # <<>>
    /\ rc_macros = Macros_new

\* C26: every call of expand_file on a finite reader comes to the point
\* where line_iter.next() returns None, and returns.
C26_LineIterationEnds == (li_pc = "next") ~> (li_pc = "done")

====
